---------------------------- MODULE Spec2Model ----------------------------
(***************************************************************************)
(* ZPageCacheBalance (src/hotspot/share/gc/z/zPageCacheBalance.cpp): the    *)
(* page cache balancer of ZGC.  balance() samples the page cache under the  *)
(* allocator lock, solves for the target number of small and medium cached  *)
(* pages, loans the surplus pages of one class out of the cache, unmaps and  *)
(* frees them, and creates, maps and releases pages of the other class.     *)
(*                                                                         *)
(* Units.  Byte sizes are counted in MiB (the page sizes are multiples of   *)
(* 1 MiB), allocation rates in bytes per second, as ZStat*AllocRate::avg()  *)
(* reports them.  size_t is 64 bits wide; TLC's integers are 32 bits wide    *)
(* and TLC stops with an error on overflow, so no value here wraps.  The    *)
(* double arithmetic of calculate_optimal_medium and calculate_minimal_*    *)
(* is modelled in exact rational arithmetic; at the magnitudes explored     *)
(* (rates below 2^28 B/s, sizes below 2^45 B) the rounding of a double is   *)
(* far smaller than the distance of any of these quotients to an integer.   *)
(***************************************************************************)
EXTENDS Integers, Sequences, FiniteSets, TLC

\* ------------------------------------------------------------ constants

\* ZPageSizeSmall and ZPageSizeMedium, in MiB ("2MB small page and 32MB
\* medium page").
ZPageSizeSmall == 2
ZPageSizeMedium == 32

\* ZPageTypeSmall / ZPageTypeMedium.
ZPageTypeSmall == "small"
ZPageTypeMedium == "medium"

\* The "0.1 /* ensure non-zero */" of calculate_optimal_medium, as the
\* denominator of the fraction 1/RateEpsilonInverse (bytes per second).
RateEpsilonInverse == 10

\* Bytes per MiB, the M of "avg() / M".
BytesPerMiB == 1048576

\* ------------------------------------------------------------ bounds

\* The solver's specification explores caches of 0..MaxSmall small and
\* 0..MaxMedium medium pages.
MaxSmall == 20
MaxMedium == 3
\* Operations other allocator clients perform during one balance().
MaxClientOps == 2

\* ------------------------------------------------------------ arithmetic

Max(a, b) == IF a >= b THEN a ELSE b

\* MAX2 of globalDefinitions.hpp.
MAX2(a, b) == Max(a, b)

\* <<q, r>> + x/d, where <<q, r>> stands for q + r/d and 0 <= r, x < d;
\* no intermediate value exceeds d.
AddFrac(qr, x, d) ==
  IF qr[2] >= d - x THEN <<qr[1] + 1, qr[2] - (d - x)>> ELSE <<qr[1], qr[2] + x>>

\* <<q, r>> doubled, plus n/d if bit is 1: one step of the binary long
\* multiplication.
MulDivStep(h, bit, n, d) ==
  IF bit = 1 THEN AddFrac(AddFrac(<<2 * h[1], h[2]>>, h[2], d), n, d)
  ELSE AddFrac(<<2 * h[1], h[2]>>, h[2], d)

\* <<q, r>> with a * n = q * d + r and 0 <= r < d, for 0 <= n < d, by
\* binary long multiplication (the product a * n itself may exceed 2^31).
\* The value for a \div 2 is bound by a quantifier, so it is computed
\* once however the formula is evaluated.
RECURSIVE MulDivMod(_, _, _)
MulDivMod(a, n, d) ==
  IF a = 0 THEN <<0, 0>>
  ELSE CHOOSE qr \in {MulDivStep(h, a % 2, n, d) : h \in {MulDivMod(a \div 2, n, d)}} : TRUE

\* floor(a * n / d).
MulDivFloor(a, n, d) == MulDivMod(a, n, d)[1]

\* ------------------------------------------------------------ state

VARIABLES
  \* Read by the balancer, constant during one balance():
  is_warm,                \* ZStatCycle::is_warm()
  capacity,               \* ZHeap::heap()->capacity(), MiB
  ZMinPageCachePercent,   \* the tunable, 0..100
  small_rate,             \* ZStatSmallPageAllocRate::avg(), B/s
  medium_rate,            \* ZStatMediumPageAllocRate::avg(), B/s
  \* The page allocator and the heap:
  pages,                  \* page id -> [type, mapped, pmem, hist]
  lock,                   \* _page_allocator->_lock: "free", "balancer", "client"
  cache,                  \* _page_allocator->_cache: the ids of the cached pages
  detached,               \* _page_allocator->_detached
  physical_free,          \* free bytes of _page_allocator->_physical, MiB
  used,                   \* the allocator's used counter, MiB
  pagetable,              \* the ids of the pages in the page table
  inuse,                  \* the ids of the pages other clients hold
  \* The fields of ZPageCacheBalance:
  _before_relocation, _small_selected_to, _medium_selected_to,
  _available_small, _available_medium, _target_small, _target_medium,
  _loaner_type, _debtor_type, _loaner_count, _debtor_count,
  _loaner_list, _debtor_list,
  \* The balancer thread's position:
  pc,                     \* where balance() stands
  stage,                  \* the index in Passes of the pass that runs
  iter,                   \* the list iterator of unmap_pages / map_pages, the i of create_pages_for_debtor
  page,                   \* the local ZPage* page of the draining loops (0: none)
  outcome,                \* how need_to_balance() ended
  \* History, for stating the properties:
  calls,                  \* how often the balancer called each collaborator
  client_ops,             \* operations of other clients so far
  interfered,             \* another client changed the cache after the counts were sampled
  start                   \* the shared state at construction

envVars == <<is_warm, capacity, ZMinPageCachePercent, small_rate, medium_rate,
             _before_relocation, _small_selected_to, _medium_selected_to, start>>
solverVars == <<_available_small, _available_medium, _target_small, _target_medium,
                _loaner_type, _debtor_type, _loaner_count, _debtor_count>>
vars == <<is_warm, capacity, ZMinPageCachePercent, small_rate, medium_rate,
          pages, lock, cache, detached, physical_free, used, pagetable, inuse,
          _before_relocation, _small_selected_to, _medium_selected_to,
          _available_small, _available_medium, _target_small, _target_medium,
          _loaner_type, _debtor_type, _loaner_count, _debtor_count,
          _loaner_list, _debtor_list,
          pc, stage, iter, page, outcome, calls, client_ops, interfered, start>>

\* ------------------------------------------------------------ the sizing solver

calculate_total_size(small_count, medium_count) ==
  ZPageSizeSmall * small_count + ZPageSizeMedium * medium_count

\* as, am: the values of _available_small and _available_medium, which
\* initialize_page_count has set when the solver's methods read them.
available_page_cache_size(as, am) == calculate_total_size(as, am)

\* The assert of calculate_maximal_small_for_medium (debug builds only).
enough_page_cache_for_medium(as, am, medium) ==
  available_page_cache_size(as, am) > medium * ZPageSizeMedium

\* The assert of calculate_maximal_medium_for_small (debug builds only).
enough_page_cache_for_small(as, am, small) ==
  available_page_cache_size(as, am) > small * ZPageSizeSmall

\* calculate_maximal_small_for_medium dividing by the medium page size, as
\* its sibling does.
calculate_maximal_small_for_medium_by_medium_size(as, am, medium) ==
  (available_page_cache_size(as, am) - medium * ZPageSizeMedium) \div ZPageSizeMedium

\* The subtraction is one of size_t: it is exact whenever the assert holds,
\* and the solver calls it with no other argument (SolverNeverUnderflows).
calculate_maximal_small_for_medium(as, am, medium) ==
  (available_page_cache_size(as, am) - medium * ZPageSizeMedium) \div ZPageSizeSmall

\* calculate_maximal_medium_for_small rounding the quotient up.
calculate_maximal_medium_for_small_rounding_up(as, am, small) ==
  (available_page_cache_size(as, am) - small * ZPageSizeSmall + ZPageSizeMedium - 1)
    \div ZPageSizeMedium

calculate_maximal_medium_for_small(as, am, small) ==
  (available_page_cache_size(as, am) - small * ZPageSizeSmall) \div ZPageSizeMedium

\* calculate_optimal_medium taking the share of the small rate.
calculate_optimal_medium_of_small_rate(as, am) ==
  IF _before_relocation THEN am
  ELSE MulDivFloor(available_page_cache_size(as, am),
                   RateEpsilonInverse * small_rate,
                   RateEpsilonInverse * (medium_rate + small_rate) + 1)
         \div ZPageSizeMedium

\* calculate_optimal_medium keeping the available count when there is no
\* rate to match.
calculate_optimal_medium_unchanged_without_rates(as, am) ==
  IF _before_relocation \/ (medium_rate = 0 /\ small_rate = 0) THEN am
  ELSE MulDivFloor(available_page_cache_size(as, am),
                   RateEpsilonInverse * medium_rate,
                   RateEpsilonInverse * (medium_rate + small_rate) + 1)
         \div ZPageSizeMedium

\* calculate_optimal_medium rounding the quotient up instead of truncating it.
calculate_optimal_medium_rounding_up(as, am) ==
  IF _before_relocation THEN am
  ELSE (MulDivFloor(available_page_cache_size(as, am),
                    RateEpsilonInverse * medium_rate,
                    RateEpsilonInverse * (medium_rate + small_rate) + 1)
          + ZPageSizeMedium - 1) \div ZPageSizeMedium

\* calculate_optimal_medium matching the rates in both phases.
calculate_optimal_medium_in_both_phases(as, am) ==
  MulDivFloor(available_page_cache_size(as, am),
              RateEpsilonInverse * medium_rate,
              RateEpsilonInverse * (medium_rate + small_rate) + 1)
    \div ZPageSizeMedium

\* (size_t)(available * medium_rate / (medium_rate + small_rate + 0.1) / ZPageSizeMedium)
calculate_optimal_medium(as, am) ==
  IF _before_relocation THEN am
  ELSE MulDivFloor(available_page_cache_size(as, am),
                   RateEpsilonInverse * medium_rate,
                   RateEpsilonInverse * (medium_rate + small_rate) + 1)
         \div ZPageSizeMedium

calculate_optimal_small(as, am) ==
  IF _before_relocation THEN as
  ELSE calculate_maximal_small_for_medium(as, am, calculate_optimal_medium(as, am))

\* calculate_minimal_medium without the to-space of relocation.
calculate_minimal_medium_without_selected_to ==
  MAX2((capacity * ZMinPageCachePercent) \div (100 * ZPageSizeMedium), 1)

\* (size_t)(capacity * ZMinPageCachePercent / 100.0 / ZPageSizeMedium)
calculate_minimal_medium ==
  LET result == MAX2((capacity * ZMinPageCachePercent) \div (100 * ZPageSizeMedium), 1)
  IN IF _before_relocation THEN MAX2(_medium_selected_to, result) ELSE result

calculate_minimal_small ==
  LET result == MAX2((capacity * ZMinPageCachePercent) \div (100 * ZPageSizeSmall), 1)
  IN IF _before_relocation THEN MAX2(_small_selected_to, result) ELSE result

\* The projection leaving the small pages at their optimum when it raises
\* the medium pages to their lower bound.
project_keeping_optimal_small(as, am, optimal_small, optimal_medium, minimal_small, minimal_medium) ==
  IF optimal_medium >= minimal_medium /\ optimal_small >= minimal_small
  THEN [target_small |-> optimal_small, target_medium |-> optimal_medium, fatal |-> "none"]
  ELSE IF optimal_medium < minimal_medium
  THEN [target_small |-> optimal_small, target_medium |-> minimal_medium, fatal |-> "none"]
  ELSE LET tm == calculate_maximal_medium_for_small(as, am, minimal_small)
       IN [target_small |-> calculate_maximal_small_for_medium(as, am, tm),
           target_medium |-> tm, fatal |-> "none"]

\* The projection raising the medium pages to one page short of their
\* lower bound.
project_short_of_lower_bound(as, am, optimal_small, optimal_medium, minimal_small, minimal_medium) ==
  IF optimal_medium >= minimal_medium /\ optimal_small >= minimal_small
  THEN [target_small |-> optimal_small, target_medium |-> optimal_medium, fatal |-> "none"]
  ELSE IF optimal_medium < minimal_medium
  THEN [target_small |-> calculate_maximal_small_for_medium(as, am, minimal_medium - 1),
        target_medium |-> minimal_medium - 1, fatal |-> "none"]
  ELSE LET tm == calculate_maximal_medium_for_small(as, am, minimal_small)
       IN [target_small |-> calculate_maximal_small_for_medium(as, am, tm),
           target_medium |-> tm, fatal |-> "none"]

\* The targets of the projection of (optimal_small, optimal_medium) on the
\* lower bounds, and the guarantee() that fails on the way ("none": none).
project_on_lower_bound(as, am, optimal_small, optimal_medium, minimal_small, minimal_medium) ==
  IF optimal_medium >= minimal_medium /\ optimal_small >= minimal_small
  THEN [target_small |-> optimal_small, target_medium |-> optimal_medium, fatal |-> "none"]
  ELSE IF optimal_medium < minimal_medium
  THEN LET tm == minimal_medium
           ts == calculate_maximal_small_for_medium(as, am, tm)
       IN [target_small |-> ts, target_medium |-> tm,
           fatal |-> IF ts >= minimal_small THEN "none" ELSE "small page lower bound"]
  ELSE IF optimal_small < minimal_small
  THEN LET tm == calculate_maximal_medium_for_small(as, am, minimal_small)
           ts == calculate_maximal_small_for_medium(as, am, tm)
       IN [target_small |-> ts, target_medium |-> tm,
           fatal |-> IF tm < minimal_medium THEN "medium page lower bound"
                     ELSE IF ts < minimal_small THEN "small page lower bound"
                     ELSE "none"]
  ELSE [target_small |-> as, target_medium |-> am, fatal |-> "ShouldNotReachHere"]

\* What determine_balance_necessity returns (necessary), the targets it
\* leaves in _target_small and _target_medium, why it returns false
\* (skip), and the guarantee() that stops the VM (fatal).
determine_balance_necessity(as, am) ==
  LET minimal_medium == calculate_minimal_medium
      minimal_small == calculate_minimal_small
      optimal_medium == calculate_optimal_medium(as, am)
      optimal_small == calculate_optimal_small(as, am)
      t == project_on_lower_bound(as, am, optimal_small, optimal_medium,
                                  minimal_small, minimal_medium)
  IN IF calculate_total_size(minimal_small, minimal_medium) > available_page_cache_size(as, am)
     THEN [necessary |-> FALSE, target_small |-> as, target_medium |-> am,
           skip |-> "infeasible", fatal |-> "none"]
     ELSE IF calculate_total_size(optimal_small, optimal_medium) # available_page_cache_size(as, am)
     THEN [necessary |-> FALSE, target_small |-> as, target_medium |-> am,
           skip |-> "none", fatal |-> "optimum changes the size"]
     ELSE IF t.fatal # "none"
     THEN [necessary |-> FALSE, target_small |-> t.target_small,
           target_medium |-> t.target_medium, skip |-> "none", fatal |-> t.fatal]
     ELSE IF calculate_total_size(t.target_small, t.target_medium) # available_page_cache_size(as, am)
     THEN [necessary |-> FALSE, target_small |-> t.target_small,
           target_medium |-> t.target_medium, skip |-> "none",
           fatal |-> "target changes the size"]
     ELSE [necessary |-> t.target_medium # am, target_small |-> t.target_small,
           target_medium |-> t.target_medium,
           skip |-> IF t.target_medium = am THEN "no movement" ELSE "none",
           fatal |-> "none"]

\* calculate_loaner_and_debtor with the loaner's count for the debtor's.
calculate_loaner_and_debtor_with_one_count(as, am, ts, tm) ==
  IF ts > as
  THEN [debtor_count |-> am - tm, debtor_type |-> ZPageTypeSmall,
        loaner_count |-> am - tm, loaner_type |-> ZPageTypeMedium]
  ELSE IF tm > am
  THEN [debtor_count |-> as - ts, debtor_type |-> ZPageTypeMedium,
        loaner_count |-> as - ts, loaner_type |-> ZPageTypeSmall]
  ELSE [debtor_count |-> _debtor_count, debtor_type |-> _debtor_type,
        loaner_count |-> _loaner_count, loaner_type |-> _loaner_type]

\* calculate_loaner_and_debtor with the operands of the loaner's
\* subtraction exchanged.
calculate_loaner_and_debtor_subtracting_backwards(as, am, ts, tm) ==
  IF ts > as
  THEN [debtor_count |-> ts - as, debtor_type |-> ZPageTypeSmall,
        loaner_count |-> tm - am, loaner_type |-> ZPageTypeMedium]
  ELSE IF tm > am
  THEN [debtor_count |-> tm - am, debtor_type |-> ZPageTypeMedium,
        loaner_count |-> ts - as, loaner_type |-> ZPageTypeSmall]
  ELSE [debtor_count |-> _debtor_count, debtor_type |-> _debtor_type,
        loaner_count |-> _loaner_count, loaner_type |-> _loaner_type]

\* The loaner and the debtor; with neither branch taken the fields keep
\* the constructor's values.
calculate_loaner_and_debtor(as, am, ts, tm) ==
  IF ts > as
  THEN [debtor_count |-> ts - as, debtor_type |-> ZPageTypeSmall,
        loaner_count |-> am - tm, loaner_type |-> ZPageTypeMedium]
  ELSE IF tm > am
  THEN [debtor_count |-> tm - am, debtor_type |-> ZPageTypeMedium,
        loaner_count |-> as - ts, loaner_type |-> ZPageTypeSmall]
  ELSE [debtor_count |-> _debtor_count, debtor_type |-> _debtor_type,
        loaner_count |-> _loaner_count, loaner_type |-> _loaner_type]

\* The arguments with which determine_balance_necessity calls
\* calculate_maximal_small_for_medium on the sampled counts (as, am): from
\* calculate_optimal_small after relocation, from the second and from the
\* third branch of the case split; none if the feasibility gate returns.
maximal_small_for_medium_calls(as, am) ==
  LET minimal_medium == calculate_minimal_medium
      minimal_small == calculate_minimal_small
      optimal_medium == calculate_optimal_medium(as, am)
      optimal_small == calculate_optimal_small(as, am)
  IN IF calculate_total_size(minimal_small, minimal_medium) > available_page_cache_size(as, am)
     THEN {}
     ELSE (IF _before_relocation THEN {} ELSE {optimal_medium})
          \cup (IF optimal_medium >= minimal_medium /\ optimal_small >= minimal_small THEN {}
                ELSE IF optimal_medium < minimal_medium THEN {minimal_medium}
                ELSE IF optimal_small < minimal_small
                THEN {calculate_maximal_medium_for_small(as, am, minimal_small)}
                ELSE {})

\* The arguments with which it calls calculate_maximal_medium_for_small:
\* minimal_small, in the third branch.
maximal_medium_for_small_calls(as, am) ==
  LET minimal_medium == calculate_minimal_medium
      minimal_small == calculate_minimal_small
      optimal_medium == calculate_optimal_medium(as, am)
      optimal_small == calculate_optimal_small(as, am)
  IN IF calculate_total_size(minimal_small, minimal_medium) > available_page_cache_size(as, am)
     THEN {}
     ELSE IF optimal_medium >= minimal_medium /\ optimal_small >= minimal_small THEN {}
     ELSE IF optimal_medium < minimal_medium THEN {}
     ELSE IF optimal_small < minimal_small THEN {minimal_small}
     ELSE {}

\* ------------------------------------------------------------ pages, cache, allocator

PageSize(type) == IF type = ZPageTypeSmall THEN ZPageSizeSmall ELSE ZPageSizeMedium

\* A page as the page cache holds it: mapped and physically backed.
CachedPage(type) == [type |-> type, mapped |-> TRUE, pmem |-> PageSize(type), hist |-> <<>>]

\* ZPageCache::small_page_count / medium_page_count, of cache c.
small_page_count(c) == Len(c[ZPageTypeSmall])
medium_page_count(c) == Len(c[ZPageTypeMedium])

\* The page ids a sequence holds.
Range(seq) == {seq[i] : i \in 1..Len(seq)}

Cached(c) == Range(c[ZPageTypeSmall]) \cup Range(c[ZPageTypeMedium])

\* ZPageCache::loan_pages(count, type, list): the lists the cache may move
\* to the balancer; up to count pages of the class, from either end of the
\* class's list (which pages it picks is the cache's choice).
loan_pages(c, count, type) ==
  LET l == c[type]
      n == IF count <= Len(l) THEN count ELSE Len(l)
  IN {SubSeq(l, 1, n), SubSeq(l, Len(l) - n + 1, Len(l))}

\* The cache without the pages of list.
cache_without(c, list) ==
  LET gone == Range(list)
  IN [t \in DOMAIN c |-> SelectSeq(c[t], LAMBDA p : p \notin gone)]

\* ZPageCache::free_page, at the end of the release path: the page joins
\* the list of its class.
cache_with(c, p, type) == [c EXCEPT ![type] = <<p>> \o @]

CallNames == {"lock", "loan_pages", "unmap", "free", "clear", "detach", "create_page",
              "increase_used", "map_page", "reset", "pagetable_insert", "release_page"}

Count(f, S) == [k \in DOMAIN f |-> IF k \in S THEN f[k] + 1 ELSE f[k]]

\* Page p after event e.
Logged(pg, e) == [pg EXCEPT !.hist = Append(@, e)]

\* The shared state a balance() may change.
Shared == [cache |-> cache, detached |-> detached, physical_free |-> physical_free,
           used |-> used, pagetable |-> pagetable, pages |-> pages]

\* ------------------------------------------------------------ initial states

\* A heap whose cache holds ns small and nm medium pages, ni small pages
\* being in use by other clients, and a balancer just constructed.
InitWith(ns, nm, ni, before, sel_s, sel_m, cap, pct, srate, mrate, warm, pfree) ==
  /\ is_warm = warm
  /\ capacity = cap
  /\ ZMinPageCachePercent = pct
  /\ small_rate = srate
  /\ medium_rate = mrate
  /\ pages = [p \in 1..(ns + nm + ni) |->
                IF p > ns /\ p <= ns + nm THEN CachedPage(ZPageTypeMedium)
                ELSE CachedPage(ZPageTypeSmall)]
  /\ lock = "free"
  /\ cache = [t \in {ZPageTypeSmall, ZPageTypeMedium} |->
                IF t = ZPageTypeSmall THEN [i \in 1..ns |-> i]
                ELSE [i \in 1..nm |-> ns + i]]
  /\ detached = <<>>
  /\ physical_free = pfree
  /\ used = ZPageSizeSmall * ni
  /\ pagetable = 1..(ns + nm + ni)
  /\ inuse = (ns + nm + 1)..(ns + nm + ni)
  /\ _before_relocation = before
  /\ _small_selected_to = sel_s
  /\ _medium_selected_to = sel_m
  /\ _available_small = 0
  /\ _available_medium = 0
  /\ _target_small = 0
  /\ _target_medium = 0
  /\ _loaner_type = ZPageTypeSmall
  /\ _debtor_type = ZPageTypeMedium
  /\ _loaner_count = 0
  /\ _debtor_count = 0
  /\ _loaner_list = <<>>
  /\ _debtor_list = <<>>
  /\ pc = "start"
  /\ stage = 0
  /\ iter = 0
  /\ page = 0
  /\ outcome = "none"
  /\ calls = [k \in CallNames |-> 0]
  /\ client_ops = 0
  /\ interfered = FALSE
  /\ start = [cache |-> cache, detached |-> detached, physical_free |-> physical_free,
              used |-> used, pagetable |-> pagetable, pages |-> pages]

\* ------------------------------------------------------------ balance()

\* unmap() freeing before it unmaps, remap() inserting before it maps,
\* balance() rebuilding before it tears down.
unmap_freeing_first == <<"free_physical_memory", "unmap_pages">>
remap_inserting_first == <<"create_pages_for_debtor", "insert_pages_to_page_cache", "map_pages">>
balance_rebuilding_first ==
  <<"create_pages_for_debtor", "map_pages", "insert_pages_to_page_cache",
    "unmap_pages", "free_physical_memory">>

\* unmap() and remap(): the passes each runs, in order.
unmap == <<"unmap_pages", "free_physical_memory">>
remap == <<"create_pages_for_debtor", "map_pages", "insert_pages_to_page_cache">>

\* balance(): the passes that follow a need_to_balance() that returned true.
balance == unmap \o remap

\* The balancer stands in pass name, at position at.
In(name, at) == pc = at /\ stage \in 1..Len(balance) /\ balance[stage] = name

\* A pass returns: the next pass starts, or balance() returns.
EndPass ==
  /\ iter' = 0
  /\ IF stage < Len(balance)
     THEN stage' = stage + 1 /\ pc' = "loop"
     ELSE stage' = stage /\ pc' = "done"

\* balance() going on to need_to_balance()'s lock whether warm or not.
EnterBalance_without_warm_check ==
  /\ pc = "start"
  /\ pc' = "need_lock"
  /\ UNCHANGED <<envVars, solverVars, pages, lock, cache, detached, physical_free, used,
                 pagetable, inuse, _loaner_list, _debtor_list, stage, iter, page,
                 outcome, calls, client_ops, interfered>>

\* balance() up to the ZLocker of need_to_balance(): not warm, return.
EnterBalance ==
  /\ pc = "start"
  /\ \/ /\ ~is_warm
        /\ pc' = "done"
        /\ outcome' = "cold"
     \/ /\ is_warm
        /\ pc' = "need_lock"
        /\ outcome' = outcome
  /\ UNCHANGED <<envVars, solverVars, pages, lock, cache, detached, physical_free, used,
                 pagetable, inuse, _loaner_list, _debtor_list, stage, iter, page,
                 calls, client_ops, interfered>>

\* ZLocker locker(&_page_allocator->_lock) of need_to_balance().
LockNeedToBalance ==
  /\ pc = "need_lock"
  /\ lock = "free"
  /\ lock' = "balancer"
  /\ pc' = "need_locked"
  /\ calls' = Count(calls, {"lock"})
  /\ UNCHANGED <<envVars, solverVars, pages, cache, detached, physical_free, used,
                 pagetable, inuse, _loaner_list, _debtor_list, stage, iter, page,
                 outcome, client_ops, interfered>>

\* need_to_balance() under the lock: initialize_page_count,
\* determine_balance_necessity, calculate_loaner_and_debtor, loan_pages;
\* the lock is released on return.
need_to_balance ==
  /\ pc = "need_locked"
  /\ LET as == small_page_count(cache)
         am == medium_page_count(cache)
         d == determine_balance_necessity(as, am)
         ld == calculate_loaner_and_debtor(as, am, d.target_small, d.target_medium)
     IN /\ _available_small' = as
        /\ _available_medium' = am
        /\ _target_small' = d.target_small
        /\ _target_medium' = d.target_medium
        /\ \/ /\ d.fatal # "none"
              /\ pc' = "fatal"
              /\ outcome' = d.fatal
              /\ UNCHANGED <<lock, cache, pages, _loaner_list, _loaner_type, _debtor_type,
                             _loaner_count, _debtor_count, stage, calls>>
           \/ /\ d.fatal = "none"
              /\ ~d.necessary
              /\ pc' = "done"
              /\ outcome' = d.skip
              /\ lock' = "free"
              /\ UNCHANGED <<cache, pages, _loaner_list, _loaner_type, _debtor_type,
                             _loaner_count, _debtor_count, stage, calls>>
           \/ /\ d.fatal = "none"
              /\ d.necessary
              /\ _loaner_type' = ld.loaner_type
              /\ _debtor_type' = ld.debtor_type
              /\ _loaner_count' = ld.loaner_count
              /\ _debtor_count' = ld.debtor_count
              /\ \E list \in loan_pages(cache, ld.loaner_count, ld.loaner_type) :
                   /\ _loaner_list' = list
                   /\ cache' = cache_without(cache, list)
                   /\ pages' = [p \in DOMAIN pages |->
                                  IF p \in Range(list) THEN Logged(pages[p], "loan")
                                  ELSE pages[p]]
              /\ calls' = Count(calls, {"loan_pages"})
              /\ lock' = "free"
              /\ outcome' = "balance"
              /\ stage' = 1
              /\ pc' = "loop"
  /\ UNCHANGED <<envVars, detached, physical_free, used, pagetable, inuse,
                 _debtor_list, iter, page, client_ops, interfered>>

\* ------------------------------------------------------------ teardown

\* unmap_pages: _physical.unmap of the next page of _loaner_list.
unmap_pages ==
  /\ In("unmap_pages", "loop")
  /\ \/ /\ iter < Len(_loaner_list)
        /\ LET p == _loaner_list[iter + 1]
           IN pages' = [pages EXCEPT ![p] = Logged([@ EXCEPT !.mapped = FALSE], "unmap")]
        /\ iter' = iter + 1
        /\ calls' = Count(calls, {"unmap"})
        /\ UNCHANGED <<pc, stage>>
     \/ /\ iter >= Len(_loaner_list)
        /\ EndPass
        /\ UNCHANGED <<pages, calls>>
  /\ UNCHANGED <<envVars, solverVars, lock, cache, detached, physical_free, used,
                 pagetable, inuse, _loaner_list, _debtor_list, page, outcome,
                 client_ops, interfered>>

\* free_physical_memory, up to the ZLocker: remove_first, or the loop ends.
free_physical_memory_next ==
  /\ In("free_physical_memory", "loop")
  /\ \/ /\ _loaner_list # <<>>
        /\ page' = Head(_loaner_list)
        /\ _loaner_list' = Tail(_loaner_list)
        /\ pc' = "wait"
        /\ UNCHANGED <<stage, iter>>
     \/ /\ _loaner_list = <<>>
        /\ EndPass
        /\ UNCHANGED <<page, _loaner_list>>
  /\ UNCHANGED <<envVars, solverVars, pages, lock, cache, detached, physical_free, used,
                 pagetable, inuse, _debtor_list, outcome, calls, client_ops, interfered>>

\* The ZLocker of a per-page critical section: of free_physical_memory,
\* of create_pages_for_debtor, of the release path.
LockPass ==
  /\ \/ In("free_physical_memory", "wait")
     \/ In("create_pages_for_debtor", "loop") /\ iter < _debtor_count
     \/ In("insert_pages_to_page_cache", "wait")
  /\ lock = "free"
  /\ lock' = "balancer"
  /\ pc' = "locked"
  /\ calls' = Count(calls, {"lock"})
  /\ UNCHANGED <<envVars, solverVars, pages, cache, detached, physical_free, used,
                 pagetable, inuse, _loaner_list, _debtor_list, stage, iter, page,
                 outcome, client_ops, interfered>>

\* free_physical_memory with its ZLocker outside the while loop: the lock
\* stays held from one page to the next.
free_physical_memory_keeping_lock ==
  /\ In("free_physical_memory", "locked")
  /\ physical_free' = physical_free + pages[page].pmem
  /\ pages' = [pages EXCEPT ![page] =
                 Logged(Logged(Logged([@ EXCEPT !.pmem = 0], "free"), "clear"), "detach")]
  /\ detached' = Append(detached, page)
  /\ calls' = Count(calls, {"free", "clear", "detach"})
  /\ page' = 0
  /\ pc' = "loop"
  /\ UNCHANGED <<envVars, solverVars, lock, cache, used, pagetable, inuse, _loaner_list,
                 _debtor_list, stage, iter, outcome, client_ops, interfered>>

\* free_physical_memory without the insert_last into _detached: the page
\* shell is dropped.
free_physical_memory_dropping_page ==
  /\ In("free_physical_memory", "locked")
  /\ physical_free' = physical_free + pages[page].pmem
  /\ pages' = [pages EXCEPT ![page] = Logged(Logged([@ EXCEPT !.pmem = 0], "free"), "clear")]
  /\ calls' = Count(calls, {"free", "clear"})
  /\ lock' = "free"
  /\ page' = 0
  /\ pc' = "loop"
  /\ UNCHANGED <<envVars, solverVars, cache, detached, used, pagetable, inuse, _loaner_list,
                 _debtor_list, stage, iter, outcome, client_ops, interfered>>

\* free_physical_memory under the lock: _physical.free(pmem), pmem.clear(),
\* _detached.insert_last(page).
free_physical_memory ==
  /\ In("free_physical_memory", "locked")
  /\ physical_free' = physical_free + pages[page].pmem
  /\ pages' = [pages EXCEPT ![page] =
                 Logged(Logged(Logged([@ EXCEPT !.pmem = 0], "free"), "clear"), "detach")]
  /\ detached' = Append(detached, page)
  /\ calls' = Count(calls, {"free", "clear", "detach"})
  /\ lock' = "free"
  /\ page' = 0
  /\ pc' = "loop"
  /\ UNCHANGED <<envVars, solverVars, cache, used, pagetable, inuse, _loaner_list,
                 _debtor_list, stage, iter, outcome, client_ops, interfered>>

\* ------------------------------------------------------------ rebuild

\* create_pages_for_debtor, the loop condition failing: the loop ends.
create_pages_for_debtor_end ==
  /\ In("create_pages_for_debtor", "loop")
  /\ iter >= _debtor_count
  /\ EndPass
  /\ UNCHANGED <<envVars, solverVars, pages, lock, cache, detached, physical_free, used,
                 pagetable, inuse, _loaner_list, _debtor_list, page, outcome, calls,
                 client_ops, interfered>>

\* ZPageAllocator::create_page(type, size): a new, unmapped page of fresh
\* physical memory; the id of the page and the pages with it.
create_page(type, size) ==
  LET p == Len(pages) + 1
  IN [id |-> p,
      pages |-> Append(pages, [type |-> type, mapped |-> FALSE, pmem |-> size,
                               hist |-> <<"create">>])]

\* create_pages_for_debtor under the lock: create_page, insert_last,
\* increase_used.  A physical pool without the memory stops the VM.
create_pages_for_debtor ==
  /\ In("create_pages_for_debtor", "locked")
  /\ LET debtor_page_size == PageSize(_debtor_type)
         created == create_page(_debtor_type, debtor_page_size)
     IN \/ /\ physical_free >= debtor_page_size
           /\ physical_free' = physical_free - debtor_page_size
           /\ pages' = created.pages
           /\ _debtor_list' = Append(_debtor_list, created.id)
           /\ used' = used + debtor_page_size
           /\ calls' = Count(calls, {"create_page", "increase_used"})
           /\ iter' = iter + 1
           /\ lock' = "free"
           /\ pc' = "loop"
           /\ outcome' = outcome
        \/ /\ physical_free < debtor_page_size
           /\ pc' = "fatal"
           /\ outcome' = "out of physical memory"
           /\ calls' = Count(calls, {"create_page"})
           /\ UNCHANGED <<physical_free, pages, _debtor_list, used, iter, lock>>
  /\ UNCHANGED <<envVars, solverVars, cache, detached, pagetable, inuse, _loaner_list,
                 stage, page, client_ops, interfered>>

\* map_pages: _page_allocator->map_page of the next page of _debtor_list.
map_pages ==
  /\ In("map_pages", "loop")
  /\ \/ /\ iter < Len(_debtor_list)
        /\ LET p == _debtor_list[iter + 1]
           IN pages' = [pages EXCEPT ![p] = Logged([@ EXCEPT !.mapped = TRUE], "map")]
        /\ iter' = iter + 1
        /\ calls' = Count(calls, {"map_page"})
        /\ UNCHANGED <<pc, stage>>
     \/ /\ iter >= Len(_debtor_list)
        /\ EndPass
        /\ UNCHANGED <<pages, calls>>
  /\ UNCHANGED <<envVars, solverVars, lock, cache, detached, physical_free, used,
                 pagetable, inuse, _loaner_list, _debtor_list, page, outcome,
                 client_ops, interfered>>

\* insert_pages_to_page_cache, up to the lock of the release path:
\* remove_first, page->reset(), _pagetable->insert(page); or the loop ends.
insert_pages_to_page_cache ==
  /\ In("insert_pages_to_page_cache", "loop")
  /\ \/ /\ _debtor_list # <<>>
        /\ page' = Head(_debtor_list)
        /\ _debtor_list' = Tail(_debtor_list)
        /\ pages' = [pages EXCEPT ![Head(_debtor_list)] =
                       Logged(Logged(@, "reset"), "pagetable_insert")]
        /\ pagetable' = pagetable \cup {Head(_debtor_list)}
        /\ calls' = Count(calls, {"reset", "pagetable_insert"})
        /\ pc' = "wait"
        /\ UNCHANGED <<stage, iter>>
     \/ /\ _debtor_list = <<>>
        /\ EndPass
        /\ UNCHANGED <<page, _debtor_list, pages, pagetable, calls>>
  /\ UNCHANGED <<envVars, solverVars, lock, cache, detached, physical_free, used,
                 inuse, _loaner_list, outcome, client_ops, interfered>>

\* ZHeap::release_page(page, false) under the allocator's lock: the page
\* joins the page cache.
release_page ==
  /\ In("insert_pages_to_page_cache", "locked")
  /\ cache' = cache_with(cache, page, pages[page].type)
  /\ pages' = [pages EXCEPT ![page] = Logged(@, "release")]
  /\ calls' = Count(calls, {"release_page"})
  /\ lock' = "free"
  /\ page' = 0
  /\ pc' = "loop"
  /\ UNCHANGED <<envVars, solverVars, detached, physical_free, used, pagetable, inuse,
                 _loaner_list, _debtor_list, stage, iter, outcome, client_ops, interfered>>

\* ------------------------------------------------------------ other allocator clients

\* What another client does under the allocator lock: it allocates a page
\* from the page cache, allocates a page of fresh physical memory, or
\* releases a page it holds into the page cache.
ClientOps ==
  {[op |-> "alloc_cached", type |-> t] : t \in {ZPageTypeSmall, ZPageTypeMedium}}
  \cup {[op |-> "alloc_physical", type |-> t] : t \in {ZPageTypeSmall, ZPageTypeMedium}}
  \cup {[op |-> "release", type |-> ZPageTypeSmall]}

ClientCan(o) ==
  CASE o.op = "alloc_cached" -> cache[o.type] # <<>>
    [] o.op = "alloc_physical" -> physical_free >= PageSize(o.type)
    [] o.op = "release" -> inuse # {}

\* The counts have been sampled: a change of the cache is one during the run.
Sampled == pc \notin {"start", "need_lock"}

\* Another client takes the allocator lock.
ClientLock ==
  /\ lock = "free"
  /\ pc # "fatal"
  /\ client_ops < MaxClientOps
  /\ \E o \in ClientOps : ClientCan(o)
  /\ lock' = "client"
  /\ UNCHANGED <<envVars, solverVars, pages, cache, detached, physical_free, used,
                 pagetable, inuse, _loaner_list, _debtor_list, pc, stage, iter, page,
                 outcome, calls, client_ops, interfered>>

\* The client allocates the first cached page of a class, and unlocks.
ClientAllocCached(type) ==
  /\ lock = "client"
  /\ cache[type] # <<>>
  /\ cache' = [cache EXCEPT ![type] = Tail(@)]
  /\ inuse' = inuse \cup {Head(cache[type])}
  /\ used' = used + PageSize(type)
  /\ interfered' = (interfered \/ Sampled)
  /\ lock' = "free"
  /\ client_ops' = client_ops + 1
  /\ UNCHANGED <<envVars, solverVars, pages, detached, physical_free, pagetable,
                 _loaner_list, _debtor_list, pc, stage, iter, page, outcome, calls>>

\* The client allocates a page of fresh physical memory, maps it, and unlocks.
ClientAllocPhysical(type) ==
  /\ lock = "client"
  /\ physical_free >= PageSize(type)
  /\ physical_free' = physical_free - PageSize(type)
  /\ pages' = Append(pages, CachedPage(type))
  /\ pagetable' = pagetable \cup {Len(pages) + 1}
  /\ inuse' = inuse \cup {Len(pages) + 1}
  /\ used' = used + PageSize(type)
  /\ lock' = "free"
  /\ client_ops' = client_ops + 1
  /\ UNCHANGED <<envVars, solverVars, cache, detached, _loaner_list, _debtor_list,
                 pc, stage, iter, page, outcome, calls, interfered>>

\* The client releases a page it holds into the page cache, and unlocks.
ClientRelease(p) ==
  /\ lock = "client"
  /\ p \in inuse
  /\ cache' = cache_with(cache, p, pages[p].type)
  /\ inuse' = inuse \ {p}
  /\ interfered' = (interfered \/ Sampled)
  /\ lock' = "free"
  /\ client_ops' = client_ops + 1
  /\ UNCHANGED <<envVars, solverVars, pages, detached, physical_free, used, pagetable,
                 _loaner_list, _debtor_list, pc, stage, iter, page, outcome, calls>>

Client ==
  \/ ClientLock
  \/ \E type \in {ZPageTypeSmall, ZPageTypeMedium} : ClientAllocCached(type)
  \/ \E type \in {ZPageTypeSmall, ZPageTypeMedium} : ClientAllocPhysical(type)
  \/ \E p \in inuse : ClientRelease(p)

\* ------------------------------------------------------------ specifications

\* The steps of need_to_balance().
Solve ==
  \/ EnterBalance
  \/ LockNeedToBalance
  \/ need_to_balance

\* The steps of unmap() and remap().
Transform ==
  \/ unmap_pages
  \/ free_physical_memory_next
  \/ LockPass
  \/ free_physical_memory
  \/ create_pages_for_debtor_end
  \/ create_pages_for_debtor
  \/ map_pages
  \/ insert_pages_to_page_cache
  \/ release_page

Next == Solve \/ Transform \/ Client

\* The inputs of the protocol's specification: caches around one medium
\* page's worth of small pages.
ProtocolCaches == {<<17, 1>>, <<1, 2>>}
ProtocolSelected == {<<0, 0>>, <<17, 0>>, <<0, 2>>}
ProtocolPercents == {0, 100}
ProtocolRates == {<<BytesPerMiB, 0>>, <<0, BytesPerMiB>>}

\* One balance() on a tight heap (no free physical memory), one small page
\* being in use, other clients running beside it.
Init ==
  \E c \in ProtocolCaches, before \in BOOLEAN, sel \in ProtocolSelected,
     pct \in ProtocolPercents, r \in ProtocolRates, warm \in BOOLEAN :
    /\ (~before => sel = <<0, 0>>)
    /\ (before => r = <<BytesPerMiB, 0>>)
    /\ InitWith(c[1], c[2], 1, before, sel[1], sel[2], 64, pct, r[1], r[2], warm, 0)

Spec == Init /\ [][Next]_vars

\* The balancer's steps that wait for nothing, its acquisitions of the
\* allocator lock, and the steps in which a client that holds the lock
\* acts and unlocks.
BalancerStep ==
  \/ EnterBalance
  \/ need_to_balance
  \/ unmap_pages
  \/ free_physical_memory_next
  \/ free_physical_memory
  \/ create_pages_for_debtor_end
  \/ create_pages_for_debtor
  \/ map_pages
  \/ insert_pages_to_page_cache
  \/ release_page

BalancerLock == LockNeedToBalance \/ LockPass

ClientUnlock ==
  \/ \E type \in {ZPageTypeSmall, ZPageTypeMedium} : ClientAllocCached(type)
  \/ \E type \in {ZPageTypeSmall, ZPageTypeMedium} : ClientAllocPhysical(type)
  \/ \E p \in inuse : ClientRelease(p)

\* The balancer's thread runs, the allocator lock is acquired fairly (a
\* thread that finds it free again and again gets it), and a client that
\* holds the lock releases it.
Fairness ==
  /\ WF_vars(BalancerStep)
  /\ SF_vars(BalancerLock)
  /\ WF_vars(ClientUnlock)

SpecFair == Init /\ [][Next]_vars /\ Fairness

\* The solver's inputs: the phases, the selected-to counts, the heap's
\* reserve and the rates it is explored with.
SelectedSmall == {0, 3, 18}
SelectedMedium == {0, 2}
Percents == {0, 1, 10}
Rates == {0, 1, BytesPerMiB}

\* The units (B/s) in which the rates 960 : 2000 of the second scenario are
\* explored: B/s, KiB/s, 64 KiB/s.
MatchingRateUnits == {1, 1024, 65536}

\* The end-to-end scenarios: <<small, medium, before, small_selected_to,
\* medium_selected_to, capacity, percent, small_rate, medium_rate>>.
Scenarios ==
  { <<8640, 0, FALSE, 0, 0, 32000, 5, 200 * BytesPerMiB, BytesPerMiB>>,
    <<8640, 0, TRUE, 500, 20, 32000, 1, 200 * BytesPerMiB, BytesPerMiB>>,
    <<100, 300, FALSE, 0, 0, 32000, 0, 10 * BytesPerMiB, BytesPerMiB>>,
    <<100, 300, FALSE, 0, 0, 32000, 0, 10, 1>> }
  \cup { <<1000, 30, FALSE, 0, 0, 32000, 0, 2000 * k, 960 * k>> : k \in MatchingRateUnits }

InitSolver ==
  \/ \E ns \in 0..MaxSmall, nm \in 0..MaxMedium, before \in BOOLEAN,
        sel_s \in SelectedSmall, sel_m \in SelectedMedium, pct \in Percents,
        srate \in Rates, mrate \in Rates, warm \in BOOLEAN :
       InitWith(ns, nm, 0, before, sel_s, sel_m, 640, pct, srate, mrate, warm, 0)
  \/ \E s \in Scenarios :
       InitWith(s[1], s[2], 0, s[3], s[4], s[5], s[6], s[7], s[8], s[9], TRUE, 0)

\* need_to_balance() alone, on every input of the solver.
SpecSolver == InitSolver /\ [][Solve]_vars

\* ------------------------------------------------------------ what the claims speak of

\* need_to_balance() has sampled the cache and run the solver.
Solved == is_warm /\ pc \notin {"start", "need_lock", "need_locked"}

\* The reservation floor as the specification states it:
\* max(1, floor(capacity * MinPageCachePercent / 100 / size)), raised
\* before relocation to the selected-to count.
FloorOf(size, selected_to) ==
  LET reserve == Max(1, (capacity * ZMinPageCachePercent) \div (100 * size))
  IN IF _before_relocation THEN Max(selected_to, reserve) ELSE reserve

FloorSmall == FloorOf(ZPageSizeSmall, _small_selected_to)
FloorMedium == FloorOf(ZPageSizeMedium, _medium_selected_to)

\* The bytes of the sampled cache.
AvailableTotal == ZPageSizeSmall * _available_small + ZPageSizeMedium * _available_medium

\* The sampled cache passes the feasibility gate.
Feasible == ZPageSizeSmall * FloorSmall + ZPageSizeMedium * FloorMedium <= AvailableTotal

IsPrefix(s, t) == Len(s) <= Len(t) /\ SubSeq(t, 1, Len(s)) = s

\* The steps of a loaner page and of a debtor page, in order.
LoanerSteps == <<"loan", "unmap", "free", "clear", "detach">>
DebtorSteps == <<"create", "map", "reset", "pagetable_insert", "release">>

Handled == {p \in DOMAIN pages : pages[p].hist # <<>>}
Loaners == {p \in DOMAIN pages : pages[p].hist # <<>> /\ pages[p].hist[1] = "loan"}
Debtors == {p \in DOMAIN pages : pages[p].hist # <<>> /\ pages[p].hist[1] = "create"}

Occurs(e, h) == \E i \in 1..Len(h) : h[i] = e

\* ------------------------------------------------------------ C1

\* C1: in every interleaving with other clients every page in the page
\* cache is mapped and physically backed; a page that has been unmapped
\* had left the cache before (loan precedes unmap) and is not in the
\* cache, and a page the balancer released had been mapped before.
C1_CachedPagesStayMapped ==
  /\ \A p \in Cached(cache) : pages[p].mapped /\ pages[p].pmem = PageSize(pages[p].type)
  /\ \A p \in DOMAIN pages :
       /\ Occurs("unmap", pages[p].hist) =>
            /\ p \notin Cached(cache)
            /\ pages[p].hist[1] = "loan"
       /\ Occurs("release", pages[p].hist) =>
            /\ IsPrefix(<<"create", "map">>, pages[p].hist)
            /\ pages[p].mapped

\* A client has acted, a loaner page is unmapped and a debtor page is in
\* the cache.
C1_Witness ==
  /\ client_ops > 0
  /\ \E p \in DOMAIN pages : Occurs("unmap", pages[p].hist) /\ ~pages[p].mapped
  /\ \E p \in Cached(cache) : Occurs("release", pages[p].hist)

\* ------------------------------------------------------------ C2

\* C2: a balance() that balanced, undisturbed by other clients' changes
\* of the cache, ends with the cache holding _target_small small and
\* _target_medium medium pages, and the bytes that were sampled.
C2_CacheReachesTargets ==
  (pc = "done" /\ outcome = "balance" /\ ~interfered) =>
    /\ small_page_count(cache) = _target_small
    /\ medium_page_count(cache) = _target_medium
    /\ calculate_total_size(small_page_count(cache), medium_page_count(cache)) = AvailableTotal

C2_Witness ==
  /\ pc = "done" /\ outcome = "balance" /\ ~interfered
  /\ _target_small # _available_small

\* ------------------------------------------------------------ C3

\* C3: on every feasible input, in both phases and for all rates, the
\* solver ends with targets of the sampled cache's byte size.
C3_TargetsPreserveCapacity ==
  (Solved /\ Feasible) =>
    /\ pc # "fatal"
    /\ ZPageSizeSmall * _target_small + ZPageSizeMedium * _target_medium = AvailableTotal

C3_Witness ==
  /\ Solved /\ Feasible /\ ~_before_relocation
  /\ small_rate > 0 /\ medium_rate > 0
  /\ _target_small < _available_small
  /\ _target_medium > _available_medium

\* ------------------------------------------------------------ C4

\* C4: on every feasible input the targets are not below the reservation
\* floor of their class.
C4_TargetsHonourFloor ==
  (Solved /\ Feasible) =>
    /\ pc # "fatal"
    /\ _target_small >= FloorSmall
    /\ _target_medium >= FloorMedium

\* The floor of medium pages comes from the selected-to count, and the
\* solver raised the medium pages to it.
C4_Witness ==
  /\ Solved /\ Feasible /\ _before_relocation
  /\ FloorMedium = _medium_selected_to
  /\ _available_medium < FloorMedium
  /\ _target_medium = FloorMedium

\* ------------------------------------------------------------ C5

\* The case of a no-op: the GC is not warm, or the sampled cache fails the
\* feasibility gate, or the solver's target_medium is the available one.
NoOpCase ==
  \/ ~is_warm
  \/ Solved /\ ~Feasible
  \/ Solved /\ _target_medium = _available_medium

\* C5: in each case of a no-op balance() returns having called nothing
\* but, if warm, the lock; it holds no page, and where no other client
\* acted the shared state is the one at construction.
C5_NoOpChangesNothing ==
  NoOpCase =>
    /\ pc \in {"start", "done"}
    /\ \A k \in CallNames \ {"lock"} : calls[k] = 0
    /\ calls["lock"] = (IF is_warm /\ pc = "done" THEN 1 ELSE 0)
    /\ lock # "balancer"
    /\ _loaner_list = <<>> /\ _debtor_list = <<>> /\ page = 0
    /\ Handled = {}
    /\ (client_ops = 0 => Shared = start)

\* The three no-ops, each returned from.
C5_Witness ==
  /\ pc = "done" /\ client_ops = 0
  /\ Solved /\ ~Feasible

C5_WitnessNoMovement ==
  /\ pc = "done" /\ Solved /\ Feasible /\ _target_medium = _available_medium

C5_WitnessCold ==
  /\ pc = "done" /\ ~is_warm

\* ------------------------------------------------------------ C6

ExactlyOne(a, b, c) == (a /\ ~b /\ ~c) \/ (~a /\ b /\ ~c) \/ (~a /\ ~b /\ c)

\* C6: on every feasible input exactly one holds of: the small pages
\* grow, the medium pages grow, the targets are the available counts; and
\* a class grows only if the other shrinks.
C6_OneClassGrows ==
  (Solved /\ Feasible) =>
    /\ pc # "fatal"
    /\ ExactlyOne(_target_small > _available_small,
                  _target_medium > _available_medium,
                  _target_small = _available_small /\ _target_medium = _available_medium)
    /\ (_target_small > _available_small => _target_medium < _available_medium)
    /\ (_target_medium > _available_medium => _target_small < _available_small)

C6_Witness ==
  /\ Solved /\ Feasible
  /\ _target_small > _available_small
  /\ _target_medium < _available_medium

\* ------------------------------------------------------------ C7

\* C7: when create_page is called, or about to be under the lock, the
\* free-physical pass is over: _loaner_list is empty and every loaned page
\* is through its steps, without physical memory, on the detached list.
C7_TeardownBeforeRebuild ==
  (calls["create_page"] > 0 \/ In("create_pages_for_debtor", "locked")) =>
    /\ _loaner_list = <<>>
    /\ Cardinality(Loaners) = _loaner_count
    /\ \A p \in Loaners :
         /\ pages[p].hist = LoanerSteps
         /\ pages[p].pmem = 0
         /\ p \in Range(detached)

C7_Witness ==
  /\ calls["create_page"] > 0
  /\ _debtor_list # <<>>
  /\ Cardinality(Loaners) > 1
  /\ client_ops > 0

\* ------------------------------------------------------------ C8

\* C8: the steps of every page the balancer handles are a prefix of the
\* loaner's or the debtor's steps, each step once and in order; a loaner
\* is mapped up to its unmap and backed up to its free, a debtor is
\* unmapped up to its map_page; and a balance() that returns has taken
\* _loaner_count loaners and _debtor_count debtors through all the steps.
C8_StepsOnceInOrder ==
  /\ \A p \in Handled :
       IsPrefix(pages[p].hist, LoanerSteps) \/ IsPrefix(pages[p].hist, DebtorSteps)
  /\ \A p \in Loaners :
       /\ pages[p].mapped <=> Len(pages[p].hist) < 2
       /\ pages[p].pmem = 0 <=> Len(pages[p].hist) >= 3
       /\ p \in Range(detached) <=> Len(pages[p].hist) = 5
  /\ \A p \in Debtors :
       /\ pages[p].mapped <=> Len(pages[p].hist) >= 2
       /\ p \in pagetable <=> Len(pages[p].hist) >= 4
       /\ p \in Cached(cache) \cup inuse <=> Len(pages[p].hist) = 5
  /\ \A i, j \in 1..Len(detached) : detached[i] = detached[j] => i = j
  /\ (pc = "done" /\ outcome = "balance") =>
       /\ \A p \in Loaners : pages[p].hist = LoanerSteps
       /\ \A p \in Debtors : pages[p].hist = DebtorSteps
       /\ Cardinality(Loaners) = _loaner_count
       /\ Cardinality(Debtors) = _debtor_count
       /\ \A k \in {"unmap", "free", "clear", "detach"} : calls[k] = _loaner_count
       /\ \A k \in CallNames \ {"lock", "loan_pages", "unmap", "free", "clear", "detach"} :
            calls[k] = _debtor_count

C8_Witness ==
  /\ pc = "done" /\ outcome = "balance"
  /\ Cardinality(Loaners) > 1
  /\ Debtors # {}

\* ------------------------------------------------------------ C9

\* The first scenario: 8640 small and no medium pages after relocation,
\* floors (800, 50), 200 MiB/s small and 1 MiB/s medium.
Scenario1 ==
  /\ Solved /\ ~_before_relocation
  /\ _available_small = 8640 /\ _available_medium = 0
  /\ FloorSmall = 800 /\ FloorMedium = 50
  /\ small_rate = 200 * BytesPerMiB /\ medium_rate = BytesPerMiB

\* The fourth scenario: the same cache before relocation, floors (500, 20)
\* of the selected-to counts.
Scenario4 ==
  /\ Solved /\ _before_relocation
  /\ _available_small = 8640 /\ _available_medium = 0
  /\ FloorSmall = 500 /\ FloorMedium = 20
  /\ _small_selected_to = 500 /\ _medium_selected_to = 20

\* C9: whenever the optimal medium count of a feasible input is below the
\* medium floor, the targets are the floor and the small pages that fill
\* the rest; (7840, 50) in the first scenario, (8320, 20) in the fourth,
\* which loans small pages for medium ones.
C9_MediumRaisedToFloor ==
  /\ (Solved /\ Feasible
        /\ calculate_optimal_medium(_available_small, _available_medium) < FloorMedium) =>
       /\ pc # "fatal"
       /\ _target_medium = FloorMedium
       /\ _target_small = (AvailableTotal - ZPageSizeMedium * FloorMedium) \div ZPageSizeSmall
  /\ Scenario1 => /\ calculate_optimal_medium(_available_small, _available_medium) < FloorMedium
                  /\ _target_small = 7840 /\ _target_medium = 50
  /\ Scenario4 => /\ _target_small = 8320 /\ _target_medium = 20
                  /\ pc = "loop"
                  /\ _loaner_type = ZPageTypeSmall /\ _loaner_count = 320
                  /\ _debtor_type = ZPageTypeMedium /\ _debtor_count = 20
                  /\ Len(_loaner_list) = 320

C9_Witness == Scenario1 /\ pc = "loop"

C9_WitnessBefore == Scenario4 /\ pc = "loop"

\* ------------------------------------------------------------ C10

\* The fifth scenario: 100 small and 300 medium pages after relocation, the
\* small rate ten times the medium rate, the floors met by the optimum.
Scenario5 ==
  /\ Solved /\ ~_before_relocation
  /\ _available_small = 100 /\ _available_medium = 300
  /\ medium_rate > 0 /\ small_rate = 10 * medium_rate
  /\ FloorSmall <= calculate_optimal_small(_available_small, _available_medium)
  /\ FloorMedium <= calculate_optimal_medium(_available_small, _available_medium)

\* The outcome of the fifth scenario but for the debtor's count.
Scenario5Loan ==
  /\ calculate_optimal_medium(_available_small, _available_medium) = 27
  /\ _target_medium = 27
  /\ _loaner_type = ZPageTypeMedium /\ _loaner_count = 273
  /\ _debtor_type = ZPageTypeSmall

\* C10 as amended: in the fifth scenario optimal_medium is 27, the loaner
\* is Medium with 273 pages and the debtor is Small with 4368 pages (the
\* cache holds 9800 MiB, and 273 * 32 = 4368 * 2).
C10_MediumToSmallCounts ==
  Scenario5 => Scenario5Loan /\ _debtor_count = 4368 /\ _target_small = 4468

\* C10 as stated: the debtor's count is 4318.
C10_AsStated ==
  Scenario5 => Scenario5Loan /\ _debtor_count = 4318

C10_Witness == Scenario5 /\ pc = "loop" /\ Len(_loaner_list) = 273

\* ------------------------------------------------------------ C11

\* The second scenario: 1000 small and 30 medium pages after relocation,
\* the rates in the byte ratio of the cache (medium 960 : small 2000), the
\* floors met by the cache.
Scenario2 ==
  /\ Solved /\ ~_before_relocation
  /\ _available_small = 1000 /\ _available_medium = 30
  /\ \E k \in MatchingRateUnits : medium_rate = 960 * k /\ small_rate = 2000 * k
  /\ FloorSmall <= _available_small /\ FloorMedium <= _available_medium

\* C11 as stated: in the second scenario the targets are (1000, 30) and
\* balance() returns with no page transformed.
C11_AsStated ==
  Scenario2 =>
    /\ _target_small = 1000 /\ _target_medium = 30
    /\ pc = "done" /\ outcome = "no movement"
    /\ Handled = {}

\* What the source does in the second scenario: 0.1 B/s in the denominator
\* leaves the quotient below 30, the cast truncates it to 29, and one
\* medium page is loaned for 16 small ones.
C11_Witness ==
  /\ Scenario2
  /\ calculate_optimal_medium(_available_small, _available_medium) = 29
  /\ _target_small = 1016 /\ _target_medium = 29
  /\ pc = "loop"
  /\ _loaner_type = ZPageTypeMedium /\ _loaner_count = 1 /\ Len(_loaner_list) = 1
  /\ _debtor_type = ZPageTypeSmall /\ _debtor_count = 16

\* ------------------------------------------------------------ C12

\* The solver has run after relocation on a feasible input, both rates zero.
ZeroRates ==
  /\ Solved /\ Feasible /\ ~_before_relocation
  /\ small_rate = 0 /\ medium_rate = 0

\* C12 as amended: with both rates zero after relocation the optimal
\* medium count is 0, the targets are the medium floor and the small pages
\* that fill the rest, and they are the available counts (no movement) if
\* and only if the available medium count is the medium floor.
C12_ZeroRatesShrinkMediumToFloor ==
  ZeroRates =>
    /\ pc # "fatal"
    /\ calculate_optimal_medium(_available_small, _available_medium) = 0
    /\ _target_medium = FloorMedium
    /\ _target_small = (AvailableTotal - ZPageSizeMedium * FloorMedium) \div ZPageSizeSmall
    /\ (_target_small = _available_small /\ _target_medium = _available_medium)
         <=> _available_medium = FloorMedium
    /\ (pc = "done" /\ outcome = "no movement") <=> _available_medium = FloorMedium

\* C12 as stated: with both rates zero the targets are the available
\* counts, for every available pair.
C12_AsStated ==
  ZeroRates => _target_small = _available_small /\ _target_medium = _available_medium

\* Zero rates, more medium pages than the floor: the surplus is loaned.
C12_Witness ==
  /\ ZeroRates
  /\ _available_medium > FloorMedium
  /\ pc = "loop"
  /\ _loaner_type = ZPageTypeMedium
  /\ _loaner_count = _available_medium - FloorMedium

\* Zero rates, the medium pages at the floor: no movement.
C12_WitnessNoMovement ==
  /\ ZeroRates
  /\ _available_medium = FloorMedium
  /\ pc = "done" /\ outcome = "no movement"

\* ------------------------------------------------------------ C13

\* The balancer is inside one of its own ZLocker scopes: that of
\* need_to_balance(), of free_physical_memory, of create_pages_for_debtor.
BalancerSection ==
  \/ pc = "need_locked"
  \/ In("free_physical_memory", "locked")
  \/ In("create_pages_for_debtor", "locked")

\* The balancer's thread is inside ZHeap::release_page, which it has
\* called without the lock, under the lock the release path takes itself.
ReleasePathSection == In("insert_pages_to_page_cache", "locked")

\* Call k is made in this step.
Calls(k) == calls'[k] = calls[k] + 1

Called(k) == calls'[k] # calls[k]

\* Where the balancer's thread holds the allocator lock.
LockHeldInSections ==
  /\ (lock = "balancer" /\ pc # "fatal") <=> (BalancerSection \/ ReleasePathSection)
  /\ (pc = "done" /\ outcome = "balance") =>
       calls["lock"] - calls["release_page"] = 1 + _loaner_count + _debtor_count
  /\ (pc = "done" /\ outcome # "balance") => calls["lock"] = (IF is_warm THEN 1 ELSE 0)

\* What each section covers, and what is called outside of them.
LockCoversCalls ==
  /\ Called("loan_pages") =>
       /\ pc = "need_locked" /\ lock = "balancer" /\ lock' = "free"
       /\ _available_small' = small_page_count(cache)
       /\ _available_medium' = medium_page_count(cache)
  /\ (Called("free") \/ Called("clear") \/ Called("detach")) =>
       /\ In("free_physical_memory", "locked") /\ lock = "balancer" /\ lock' = "free"
       /\ Calls("free") /\ Calls("clear") /\ Calls("detach")
  /\ (Called("create_page") \/ Called("increase_used")) =>
       /\ In("create_pages_for_debtor", "locked") /\ lock = "balancer"
       /\ Calls("create_page")
       /\ pc' # "fatal" => Calls("increase_used") /\ lock' = "free"
  /\ (Called("unmap") \/ Called("map_page") \/ Called("reset") \/ Called("pagetable_insert")) =>
       lock # "balancer" /\ lock' # "balancer"
  /\ Called("release_page") =>
       /\ ReleasePathSection /\ Calls("release_page") /\ lock' = "free"
  /\ (pc = "locked" /\ pc' # pc) => (lock' = "free" \/ pc' = "fatal")

\* C13: the balancer's thread holds the allocator lock exactly inside the
\* one section of need_to_balance() (sample, solve, loan_pages), one
\* section per loaner page (free, clear, detach) and one per debtor page
\* (create_page, increase_used), each released before the next page; it
\* calls unmap, map_page, reset, the page table's insert and release_page
\* without the lock (release_page takes the lock itself).
C13_LockIntervals == []LockHeldInSections /\ [][LockCoversCalls]_vars

\* A balance() that returned after several per-page sections, with
\* another client having taken the lock in between.
C13_Witness ==
  /\ pc = "done" /\ outcome = "balance"
  /\ _loaner_count > 1
  /\ client_ops > 0
  /\ calls["lock"] = 1 + _loaner_count + 2 * _debtor_count

\* ------------------------------------------------------------ C14

\* create_page is about to be called, under the lock, during a run that
\* started with no free physical memory.
AtCreatePage == In("create_pages_for_debtor", "locked") /\ start.physical_free = 0

\* C14 as stated: at every create_page call the physical pool holds the
\* bytes of a debtor page, whatever other clients did between the
\* balancer's critical sections.
C14_AsStated == AtCreatePage => physical_free >= PageSize(_debtor_type)

\* Teardown has freed the bytes of the debtor pages, another client has
\* allocated physical memory since, and create_page found less than a
\* debtor page's bytes in the pool.
C14_Witness ==
  /\ start.physical_free = 0
  /\ pc = "fatal" /\ outcome = "out of physical memory"
  /\ calls["free"] = _loaner_count
  /\ calls["free"] * PageSize(_loaner_type) = _debtor_count * PageSize(_debtor_type)
  /\ client_ops > 0
  /\ physical_free < PageSize(_debtor_type)

\* ------------------------------------------------------------ C15

\* A balance() run that loaned pages, no other client having changed the
\* cache since the counts were sampled (no client changes the detached
\* list).
UndisturbedRun == outcome = "balance" /\ ~interfered

\* The count of the loaner class that initialize_page_count sampled.
SampledLoanerCount ==
  IF _loaner_type = ZPageTypeSmall THEN _available_small ELSE _available_medium

\* The pages this run has appended to the detached list.
AppendedToDetached == Len(detached) - Len(start.detached)

\* The loaner pages free_physical_memory holds in its local variable:
\* removed from _loaner_list, not yet appended to _detached.
InFlightLoaners == IF page # 0 /\ page \in Loaners THEN 1 ELSE 0

\* C15 as amended: at any moment of an undisturbed run the pages in
\* _loaner_list, the page free_physical_memory has removed from it and
\* not yet detached, the pages appended to detached and the cached pages
\* of the loaner class are together as many as the sampled count of the
\* loaner class.
C15_LoanerPagesAccounted ==
  UndisturbedRun =>
    Len(_loaner_list) + InFlightLoaners + AppendedToDetached + Len(cache[_loaner_type])
      = SampledLoanerCount

\* C15 as stated: the pages in _loaner_list, those appended to detached
\* and the cached ones of the loaner class are as many as were sampled.
C15_AsStated ==
  UndisturbedRun =>
    Len(_loaner_list) + AppendedToDetached + Len(cache[_loaner_type]) = SampledLoanerCount

\* The drain of _loaner_list is under way: a page is detached, one is
\* held under the lock, others wait in the list.
C15_Witness ==
  /\ UndisturbedRun
  /\ In("free_physical_memory", "locked")
  /\ page \in Loaners
  /\ AppendedToDetached > 0
  /\ _loaner_list # <<>>

\* ------------------------------------------------------------ C16

\* The solver has taken the third case of the projection on a feasible
\* input: the optimal small count is below its floor, the optimal medium
\* count is not.
ThirdCase ==
  /\ Solved /\ Feasible
  /\ calculate_optimal_small(_available_small, _available_medium) < FloorSmall
  /\ calculate_optimal_medium(_available_small, _available_medium) >= FloorMedium

\* C16: in the third case _target_medium is the largest k with
\* SmallSize * minimal_small + MediumSize * k <= available_total, it is
\* at least minimal_medium, and minimal_small <= _target_small <
\* minimal_small + MediumSize / SmallSize.
C16_LargestMediumForSmallFloor ==
  ThirdCase =>
    /\ pc # "fatal"
    /\ ZPageSizeSmall * FloorSmall + ZPageSizeMedium * _target_medium <= AvailableTotal
    /\ ZPageSizeSmall * FloorSmall + ZPageSizeMedium * (_target_medium + 1) > AvailableTotal
    /\ _target_medium >= FloorMedium
    /\ FloorSmall <= _target_small
    /\ _target_small < FloorSmall + ZPageSizeMedium \div ZPageSizeSmall

\* The third case with the medium target above its floor and the small
\* target above its own: the recomputation fills the cache.
C16_Witness ==
  /\ ThirdCase
  /\ _target_medium > FloorMedium
  /\ _target_small > FloorSmall
  /\ _target_medium < calculate_optimal_medium(_available_small, _available_medium)
  /\ pc = "loop"

\* The third case before relocation, the small floor being the
\* selected-to count.
C16_WitnessBefore ==
  /\ ThirdCase /\ _before_relocation
  /\ FloorSmall = _small_selected_to
  /\ _target_small > _available_small

\* ------------------------------------------------------------ C17

\* Every call the solver has made of calculate_maximal_small_for_medium
\* and of calculate_maximal_medium_for_small satisfies the assert of the
\* callee: the size_t subtraction does not underflow.
SolverNeverUnderflows ==
  /\ \A medium \in maximal_small_for_medium_calls(_available_small, _available_medium) :
       enough_page_cache_for_medium(_available_small, _available_medium, medium)
  /\ \A small \in maximal_medium_for_small_calls(_available_small, _available_medium) :
       enough_page_cache_for_small(_available_small, _available_medium, small)

\* C17: on every input that passes the feasibility gate no guarantee of
\* the solver fails and ShouldNotReachHere is not reached; the optimal
\* counts are never both below their floors; and every call of
\* calculate_maximal_small_for_medium(m) and
\* calculate_maximal_medium_for_small(s) has available_total >
\* m * MediumSize, respectively available_total > s * SmallSize.
C17_NoFatalCheck ==
  (Solved /\ Feasible) =>
    /\ pc # "fatal"
    /\ outcome \in {"no movement", "balance"}
    /\ ~(/\ calculate_optimal_small(_available_small, _available_medium) < FloorSmall
         /\ calculate_optimal_medium(_available_small, _available_medium) < FloorMedium)
    /\ SolverNeverUnderflows

\* A feasible input after relocation on which the solver made all its
\* calls of the two functions: one from calculate_optimal_small, two from
\* the third branch.
C17_Witness ==
  /\ Solved /\ Feasible /\ ~_before_relocation
  /\ maximal_medium_for_small_calls(_available_small, _available_medium) # {}
  /\ Cardinality(maximal_small_for_medium_calls(_available_small, _available_medium)) = 2
  /\ pc = "loop"

\* The second branch, its call being made with the medium floor.
C17_WitnessSecondBranch ==
  /\ Solved /\ Feasible
  /\ calculate_optimal_medium(_available_small, _available_medium) < FloorMedium
  /\ FloorMedium \in maximal_small_for_medium_calls(_available_small, _available_medium)
  /\ FloorMedium > 1

\* ------------------------------------------------------------ C18

\* balance() has returned with nothing left over: both lists are empty,
\* every loaned page is on the detached list without physical memory,
\* every created page has been released into the cache.
CleanAtCompletion ==
  pc = "done" =>
    /\ _loaner_list = <<>> /\ _debtor_list = <<>> /\ page = 0
    /\ lock # "balancer"
    /\ outcome = "balance" => Cardinality(Loaners) = _loaner_count
                               /\ Cardinality(Debtors) = _debtor_count
    /\ \A p \in Loaners : p \in Range(detached) /\ pages[p].pmem = 0
    /\ \A p \in Debtors : Occurs("release", pages[p].hist) /\ p \in Cached(cache) \cup inuse

\* C18 as stated: under fair acquisition of the allocator lock every
\* balance() eventually completes, and at completion both lists are
\* empty, every loaned page detached and cleared, every created page
\* released into the cache.
C18_AsStated == <>(pc = "done") /\ []CleanAtCompletion

\* What holds of every fair run: balance() completes, clean, or the VM
\* stops in create_page for want of physical memory.
C18_CompletesOrStops == <>(pc \in {"done", "fatal"}) /\ []CleanAtCompletion

\* A balance() that never completes: the VM has stopped in create_page
\* with created pages left in _debtor_list, the loaned pages detached,
\* another client having allocated physical memory that teardown freed.
C18_Witness ==
  /\ pc = "fatal" /\ outcome = "out of physical memory"
  /\ lock = "balancer"
  /\ _debtor_list # <<>>
  /\ \A p \in Loaners : p \in Range(detached)
  /\ client_ops > 0

\* ------------------------------------------------------------ C19

\* need_to_balance() has returned true.
ReturnedTrue == Solved /\ outcome = "balance"

\* The branches of calculate_loaner_and_debtor.
SmallGrows == _target_small > _available_small
MediumGrows == _target_medium > _available_medium

\* C19: whenever need_to_balance() returns true exactly one of the two
\* branches of calculate_loaner_and_debtor is taken, the types differ,
\* neither subtraction underflows, both counts are at least 1, the
\* loaner's count is at most the sampled count of its class, and the
\* loaned bytes are the bytes to create.
C19_LoanBalancesDebt ==
  ReturnedTrue =>
    /\ SmallGrows # MediumGrows
    /\ SmallGrows =>
         /\ _debtor_type = ZPageTypeSmall /\ _loaner_type = ZPageTypeMedium
         /\ _available_medium >= _target_medium
         /\ _debtor_count = _target_small - _available_small
         /\ _loaner_count = _available_medium - _target_medium
    /\ MediumGrows =>
         /\ _debtor_type = ZPageTypeMedium /\ _loaner_type = ZPageTypeSmall
         /\ _available_small >= _target_small
         /\ _debtor_count = _target_medium - _available_medium
         /\ _loaner_count = _available_small - _target_small
    /\ _loaner_type # _debtor_type
    /\ _loaner_count >= 1 /\ _debtor_count >= 1
    /\ _loaner_count <= SampledLoanerCount
    /\ _loaner_count * PageSize(_loaner_type) = _debtor_count * PageSize(_debtor_type)

\* The first branch: medium pages are loaned for small ones.
C19_Witness ==
  /\ ReturnedTrue /\ SmallGrows
  /\ _loaner_count > 1
  /\ _debtor_count = 16 * _loaner_count

\* The second branch: small pages are loaned for medium ones.
C19_WitnessMediumGrows ==
  /\ ReturnedTrue /\ MediumGrows
  /\ _debtor_count > 1
  /\ _loaner_count < SampledLoanerCount

\* ------------------------------------------------------------ C20

\* A sampled count is below its floor.
BelowFloor == _available_small < FloorSmall \/ _available_medium < FloorMedium

\* The targets before relocation, from the sampled counts and the floors
\* alone: the available counts if they meet the floors; else the medium
\* floor with the small pages that fill the rest; else the most medium
\* pages that leave the small floor, with the small pages that fill the
\* rest.
RateFreeTargets ==
  IF ~BelowFloor THEN <<_available_small, _available_medium>>
  ELSE IF _available_medium < FloorMedium
  THEN <<(AvailableTotal - ZPageSizeMedium * FloorMedium) \div ZPageSizeSmall, FloorMedium>>
  ELSE LET k == (AvailableTotal - ZPageSizeSmall * FloorSmall) \div ZPageSizeMedium
       IN <<(AvailableTotal - ZPageSizeMedium * k) \div ZPageSizeSmall, k>>

\* C20: before relocation the targets are those the sampled counts and
\* the floors give, whatever the rates; need_to_balance() returns true
\* if and only if the input is feasible and a sampled count is below its
\* floor; with both counts at their floors or above the targets are the
\* available counts and balance() returns having changed nothing.
C20_BeforeRelocationFloorsDecide ==
  (Solved /\ _before_relocation) =>
    /\ pc # "fatal"
    /\ outcome = "balance" <=> (Feasible /\ BelowFloor)
    /\ Feasible => <<_target_small, _target_medium>> = RateFreeTargets
    /\ ~Feasible => outcome = "infeasible"
    /\ ~BelowFloor =>
         /\ _target_small = _available_small /\ _target_medium = _available_medium
         /\ pc = "done" /\ outcome = "no movement"
         /\ _loaner_list = <<>> /\ Handled = {}
         /\ client_ops = 0 => Shared = start

\* Before relocation, rates that differ, the small pages below their
\* floor and the medium pages not below theirs: pages are moved.
C20_Witness ==
  /\ Solved /\ _before_relocation /\ Feasible
  /\ small_rate > 0 /\ medium_rate > small_rate
  /\ _available_small < FloorSmall /\ _available_medium >= FloorMedium
  /\ outcome = "balance" /\ _target_small > _available_small

\* Before relocation, rates that after relocation would move pages, both
\* counts at their floors or above: nothing is moved.
C20_WitnessNoOp ==
  /\ Solved /\ _before_relocation /\ ~BelowFloor
  /\ small_rate > 0 /\ medium_rate = 0
  /\ _available_medium > FloorMedium
  /\ pc = "done" /\ outcome = "no movement"

=============================================================================
